---- MODULE Spec2Model ----
(***************************************************************************)
(* Modular exponentiation of exponentiation.py: the naive and the binary   *)
(* method, the windowed method pow_window, and its two partitioners        *)
(* partition_window_same_width and partition_window_clnw.                  *)
(*                                                                         *)
(* One behaviour is one call.  Init draws the called function and its      *)
(* arguments; the actions are the steps of the called function.  Python    *)
(* lists are sequences, so the Python index k is the index k + 1 here.     *)
(***************************************************************************)
EXTENDS Integers, Sequences, FiniteSets

\* ---- bounds of the checked instance ----
MaxX == 3
MaxExp == 14
MaxMod == 7
MaxW == 3
MaxNegW == 1
MaxWindows == 8

\* op                       the called function
\* args                     its arguments x, exp, mod and, for pow_window_*,
\*                          the size parameter w handed to the partitioner
\* x, exp                   the parameters x and exp (pow_binary reassigns both)
\* y                        the accumulator y
\* i                        the loop index i of pow_step_by_step (line 17) and
\*                          of pow_window (line 88)
\* j                        the loop index j of pow_window (line 89)
\* window_partitions        the list built by the partitioner
\* max_length               the maximal window length the partitioner reports
\* position                 position of partition_window_clnw
\* precomputed_powers_of_x  the table of pow_window, indexed from 0
\* iterations               the number of iterations pow_binary's loop has made
\* pc                       the control position: "entry", "loop", "scan",
\*                          "table", "init", "replay", "done", "raised"
\* err                      the exception that ended the call, "" if none
VARIABLES op, args, x, exp, y, i, j, window_partitions, max_length,
          position, precomputed_powers_of_x, iterations, pc, err

vars == <<op, args, x, exp, y, i, j, window_partitions, max_length,
          position, precomputed_powers_of_x, iterations, pc, err>>

BaselineOps == {"pow_step_by_step", "pow_binary"}
WindowOps == {"pow_window_same_width", "pow_window_clnw"}

\* ---- integer primitives of the Python code ----

RECURSIVE bit_length(_)
\* int.bit_length()
bit_length(n) == IF n = 0 THEN 0 ELSE 1 + bit_length(n \div 2)

RECURSIVE BitAnd(_, _)
\* a & b on non-negative integers
BitAnd(a, b) ==
    IF a = 0 \/ b = 0 THEN 0
    ELSE (IF a % 2 = 1 /\ b % 2 = 1 THEN 1 ELSE 0) + 2 * BitAnd(a \div 2, b \div 2)

\* 1 << k, k >= 0
ShiftLeftOne(k) == 2 ^ k

\* n >> k, n >= 0, k >= 0
ShiftRight(n, k) == n \div (2 ^ k)

RECURSIVE Power(_, _)
\* b ** e on unbounded integers, e >= 0 (0 ** 0 is 1)
Power(b, e) == IF e = 0 THEN 1 ELSE b * Power(b, e - 1)

\* b ** e % m
PowerMod(b, e, m) == Power(b, e) % m

\* MulMod with the product replaced by a sum
MulModWrong(a, b, m) == (a + b) % m
\* (a * b) % m
MulMod(a, b, m) == (a * b) % m

\* math.ceil(a / b) for a >= 0 and b # 0
CeilDiv(a, b) == IF b > 0 THEN (a + b - 1) \div b ELSE 0 - (a \div (0 - b))

\* ---- partition_window_same_width ----

\* SameWidthCount rounding down instead of up
SameWidthCountFloor(e, window_size) == bit_length(e) \div window_size
\* math.ceil(exp.bit_length() / window_size), the number of windows
SameWidthCount(e, window_size) == CeilDiv(bit_length(e), window_size)

\* ((1 << window_size) - 1) & (exp >> k * window_size), k the Python index
SameWidthValue(e, window_size, k) ==
    BitAnd(ShiftLeftOne(window_size) - 1, ShiftRight(e, k * window_size))

\* the whole function: the raised exception ("" when it returns), the list
\* and the reported maximal length
partition_window_same_width(e, window_size) ==
    IF window_size >= bit_length(e)
    THEN [raised |-> "Exception", windows |-> <<>>, max |-> 0]
    ELSE IF window_size = 0
    THEN [raised |-> "ZeroDivisionError", windows |-> <<>>, max |-> 0]
    ELSE LET n == SameWidthCount(e, window_size)
         IN  [raised |-> "",
              windows |-> [k \in 1..n |->
                             [value |-> SameWidthValue(e, window_size, k - 1),
                              length |-> window_size]],
              max |-> window_size]

\* ---- partition_window_clnw ----

\* not exp & 1 << position
IsZeroBit(e, p) == BitAnd(e, ShiftLeftOne(p)) = 0

\* ZeroWordLength closing the zero-word after one bit
ZeroWordLengthOneBit(e, p) == 1
RECURSIVE ZeroWordLength(_, _)
\* the inner loop of the ZW branch, entered on a zero bit below the top bit:
\* the number of times it advances position and length
ZeroWordLength(e, p) ==
    IF IsZeroBit(e, p) THEN 1 + ZeroWordLength(e, p + 1) ELSE 0

\* the inner loop of the NW branch: length after `while length < nonzero_window_size`
NonzeroWordLength(nonzero_window_size) ==
    IF nonzero_window_size > 0 THEN nonzero_window_size ELSE 0

\* NonzeroWordValue without the shift
NonzeroWordValueUnshifted(e, p, length) == BitAnd(e, ShiftLeftOne(length) - 1)
\* NonzeroWordValue shifting one bit too far
NonzeroWordValueOffByOne(e, p, length) ==
    BitAnd(ShiftRight(e, p - length + 1), ShiftLeftOne(length) - 1)
\* exp >> (position - length) & ((1 << length) - 1), p the position after the loop
NonzeroWordValue(e, p, length) ==
    BitAnd(ShiftRight(e, p - length), ShiftLeftOne(length) - 1)

Max(a, b) == IF a >= b THEN a ELSE b

\* ---- one call: the called function and its arguments ----

\* the baselines take no size parameter: w is 0 in their calls
Inputs ==
    [x : 0..MaxX, exp : 0..MaxExp, mod : 1..MaxMod, w : (0 - MaxNegW)..MaxW]

Init ==
    /\ op \in BaselineOps \union WindowOps
    /\ args \in Inputs
    /\ op \in BaselineOps => args.w = 0
    /\ x = args.x
    /\ exp = args.exp
    /\ y = 0
    /\ i = 0
    /\ j = 0
    /\ window_partitions = <<>>
    /\ max_length = 0
    /\ position = 0
    /\ precomputed_powers_of_x = <<>>
    /\ iterations = 0
    /\ pc = "entry"
    /\ err = ""

\* ---- pow_step_by_step ----

pow_step_by_step_entry ==
    /\ op = "pow_step_by_step" /\ pc = "entry"
    /\ y' = 1
    /\ i' = 0
    /\ pc' = "loop"
    /\ UNCHANGED <<op, args, x, exp, j, window_partitions, max_length,
                   position, precomputed_powers_of_x, iterations, err>>

pow_step_by_step_loop ==
    /\ op = "pow_step_by_step" /\ pc = "loop"
    /\ i < exp
    /\ y' = MulMod(y, x, args.mod)
    /\ i' = i + 1
    /\ UNCHANGED <<op, args, x, exp, j, window_partitions, max_length,
                   position, precomputed_powers_of_x, iterations, pc, err>>

pow_step_by_step_return ==
    /\ op = "pow_step_by_step" /\ pc = "loop"
    /\ i >= exp
    /\ pc' = "done"
    /\ UNCHANGED <<op, args, x, exp, y, i, j, window_partitions, max_length,
                   position, precomputed_powers_of_x, iterations, err>>

\* ---- pow_binary ----

pow_binary_entry ==
    /\ op = "pow_binary" /\ pc = "entry"
    /\ y' = 1
    /\ pc' = "loop"
    /\ UNCHANGED <<op, args, x, exp, i, j, window_partitions, max_length,
                   position, precomputed_powers_of_x, iterations, err>>

pow_binary_loop ==
    /\ op = "pow_binary" /\ pc = "loop"
    /\ exp # 0
    /\ LET odd == (exp % 2) # 0
           e1 == IF odd THEN exp - 1 ELSE exp
       IN  /\ y' = IF odd THEN MulMod(y, x, args.mod) ELSE y
           /\ exp' = ShiftRight(e1, 1)
    /\ x' = MulMod(x, x, args.mod)
    /\ iterations' = iterations + 1
    /\ UNCHANGED <<op, args, i, j, window_partitions, max_length,
                   position, precomputed_powers_of_x, pc, err>>

pow_binary_return ==
    /\ op = "pow_binary" /\ pc = "loop"
    /\ exp = 0
    /\ pc' = "done"
    /\ UNCHANGED <<op, args, x, exp, y, i, j, window_partitions, max_length,
                   position, precomputed_powers_of_x, iterations, err>>

\* ---- pow_window, line 76: the call of the partitioner ----

call_partition_window_same_width ==
    /\ op = "pow_window_same_width" /\ pc = "entry"
    /\ LET r == partition_window_same_width(exp, args.w)
       IN  IF r.raised # ""
           THEN /\ pc' = "raised"
                /\ err' = r.raised
                /\ UNCHANGED <<window_partitions, max_length>>
           ELSE /\ window_partitions' = r.windows
                /\ max_length' = r.max
                /\ pc' = "table"
                /\ UNCHANGED err
    /\ UNCHANGED <<op, args, x, exp, y, i, j, position,
                   precomputed_powers_of_x, iterations>>

partition_window_clnw_entry ==
    /\ op = "pow_window_clnw" /\ pc = "entry"
    /\ IF args.w > bit_length(exp)
       THEN /\ pc' = "raised"
            /\ err' = "Exception"
       ELSE /\ pc' = "scan"
            /\ UNCHANGED err
    /\ window_partitions' = <<>>
    /\ max_length' = 0
    /\ position' = 0
    /\ UNCHANGED <<op, args, x, exp, y, i, j, precomputed_powers_of_x, iterations>>

partition_window_clnw_ZW ==
    /\ op = "pow_window_clnw" /\ pc = "scan"
    /\ position < bit_length(exp)
    /\ IsZeroBit(exp, position)
    /\ Len(window_partitions) < MaxWindows   \* cap of the model, not of the code
    /\ LET length == ZeroWordLength(exp, position)
       IN  /\ position' = position + length
           /\ window_partitions' =
                  Append(window_partitions, [value |-> 0, length |-> length])
           /\ max_length' = Max(max_length, length)
    /\ UNCHANGED <<op, args, x, exp, y, i, j, precomputed_powers_of_x,
                   iterations, pc, err>>

partition_window_clnw_NW ==
    /\ op = "pow_window_clnw" /\ pc = "scan"
    /\ position < bit_length(exp)
    /\ ~IsZeroBit(exp, position)
    /\ Len(window_partitions) < MaxWindows   \* cap of the model, not of the code
    /\ LET length == NonzeroWordLength(args.w)
           value == NonzeroWordValue(exp, position + length, length)
       IN  /\ position' = position + length
           /\ window_partitions' =
                  Append(window_partitions, [value |-> value, length |-> length])
           /\ max_length' = Max(max_length, length)
    /\ UNCHANGED <<op, args, x, exp, y, i, j, precomputed_powers_of_x,
                   iterations, pc, err>>

partition_window_clnw_return ==
    /\ op = "pow_window_clnw" /\ pc = "scan"
    /\ position >= bit_length(exp)
    /\ pc' = "table"
    /\ UNCHANGED <<op, args, x, exp, y, i, j, window_partitions, max_length,
                   position, precomputed_powers_of_x, iterations, err>>

\* ---- pow_window, lines 82-93 ----

\* range(0, 2**max_window_partition_length, 1) takes no float: a negative
\* length raises TypeError
pow_window_table ==
    /\ op \in WindowOps /\ pc = "table"
    /\ IF max_length < 0
       THEN /\ pc' = "raised"
            /\ err' = "TypeError"
            /\ UNCHANGED precomputed_powers_of_x
       ELSE /\ precomputed_powers_of_x' =
                  [k \in 0..(2 ^ max_length - 1) |-> PowerMod(x, k, args.mod)]
            /\ pc' = "init"
            /\ UNCHANGED err
    /\ UNCHANGED <<op, args, x, exp, y, i, j, window_partitions, max_length,
                   position, iterations>>

\* line 87; window_partitions[-1] of an empty list raises IndexError
pow_window_init ==
    /\ op \in WindowOps /\ pc = "init"
    /\ IF Len(window_partitions) = 0
       THEN /\ pc' = "raised"
            /\ err' = "IndexError"
            /\ UNCHANGED <<y, i, j>>
       ELSE /\ y' = precomputed_powers_of_x[
                        window_partitions[Len(window_partitions)].value]
            /\ i' = Len(window_partitions) - 2
            /\ j' = 0
            /\ pc' = "replay"
            /\ UNCHANGED err
    /\ UNCHANGED <<op, args, x, exp, window_partitions, max_length,
                   position, precomputed_powers_of_x, iterations>>

\* lines 89-90, one squaring
pow_window_square ==
    /\ op \in WindowOps /\ pc = "replay"
    /\ i >= 0
    /\ j < window_partitions[i + 1].length
    /\ y' = MulMod(y, y, args.mod)
    /\ j' = j + 1
    /\ UNCHANGED <<op, args, x, exp, i, window_partitions, max_length,
                   position, precomputed_powers_of_x, iterations, pc, err>>

\* lines 91-92 and the step of the outer loop to the next lower index
pow_window_multiply ==
    /\ op \in WindowOps /\ pc = "replay"
    /\ i >= 0
    /\ j >= window_partitions[i + 1].length
    /\ y' = IF window_partitions[i + 1].value # 0
            THEN MulMod(y, precomputed_powers_of_x[window_partitions[i + 1].value],
                        args.mod)
            ELSE y
    /\ i' = i - 1
    /\ j' = 0
    /\ UNCHANGED <<op, args, x, exp, window_partitions, max_length,
                   position, precomputed_powers_of_x, iterations, pc, err>>

\* line 93
pow_window_return ==
    /\ op \in WindowOps /\ pc = "replay"
    /\ i < 0
    /\ pc' = "done"
    /\ UNCHANGED <<op, args, x, exp, y, i, j, window_partitions, max_length,
                   position, precomputed_powers_of_x, iterations, err>>

Next ==
    \/ pow_step_by_step_entry
    \/ pow_step_by_step_loop
    \/ pow_step_by_step_return
    \/ pow_binary_entry
    \/ pow_binary_loop
    \/ pow_binary_return
    \/ call_partition_window_same_width
    \/ partition_window_clnw_entry
    \/ partition_window_clnw_ZW
    \/ partition_window_clnw_NW
    \/ partition_window_clnw_return
    \/ pow_window_table
    \/ pow_window_init
    \/ pow_window_square
    \/ pow_window_multiply
    \/ pow_window_return

Spec == Init /\ [][Next]_vars

\* ---- vocabulary of the properties ----

\* the size parameter is one the partitioner of this call accepts
Accepted ==
    \/ op = "pow_window_same_width" /\ 1 <= args.w /\ args.w < bit_length(args.exp)
    \/ op = "pow_window_clnw" /\ 1 <= args.w /\ args.w <= bit_length(args.exp)

\* the partitioner of this call has returned its list to pow_window
PartitionerReturned ==
    /\ op \in WindowOps
    /\ \/ pc \in {"table", "init", "replay", "done"}
       \/ pc = "raised" /\ err \in {"TypeError", "IndexError"}

\* the partitioner of this call has raised, and pow_window with it
PartitionerRaised ==
    /\ op \in WindowOps
    /\ pc = "raised" /\ err \in {"Exception", "ZeroDivisionError"}

RECURSIVE SumLengths(_, _)
\* the sum of the lengths of the first n windows
SumLengths(ws, n) == IF n = 0 THEN 0 ELSE SumLengths(ws, n - 1) + ws[n].length

RECURSIVE BitOr(_, _)
\* a | b on non-negative integers
BitOr(a, b) ==
    IF a = 0 THEN b
    ELSE IF b = 0 THEN a
    ELSE (IF a % 2 = 1 \/ b % 2 = 1 THEN 1 ELSE 0) + 2 * BitOr(a \div 2, b \div 2)

RECURSIVE FoldFrom(_, _, _)
\* acc := (acc << length) | value over the windows n, n - 1, ..., 1
FoldFrom(ws, n, acc) ==
    IF n = 0 THEN acc
    ELSE FoldFrom(ws, n - 1, BitOr(acc * (2 ^ ws[n].length), ws[n].value))

Reference == PowerMod(args.x, args.exp, args.mod)

\* ---- C1 ----

\* C1: with a size parameter the partitioner accepts, pow_window raises
\* nothing and returns x ** exp % mod, whichever partitioner it is given.
C1_WindowedCorrect ==
    (op \in WindowOps /\ Accepted) =>
        /\ pc # "raised"
        /\ pc = "done" => y = Reference

\* a CLNW call has returned a result above 1 although its topmost window
\* covers bit positions beyond bit_length(exp)
C1_Witness ==
    /\ op = "pow_window_clnw" /\ Accepted /\ pc = "done"
    /\ SumLengths(window_partitions, Len(window_partitions)) > bit_length(args.exp)
    /\ y = Reference /\ y > 1

\* ---- C2 ----

\* C2: pow_step_by_step and pow_binary return x ** exp % mod for every
\* x >= 0, exp >= 0 and mod >= 1.
C2_BaselinesCorrect ==
    (op \in BaselineOps /\ pc = "done") => y = Reference

\* ---- C3 ----

\* C3 as stated: the lengths of the returned windows sum exactly to
\* bit_length(exp).
C3_LengthsSumToBitLength ==
    (PartitionerReturned /\ Accepted) =>
        SumLengths(window_partitions, Len(window_partitions)) = bit_length(args.exp)

\* C3 amended: the lengths of the returned windows sum to at least
\* bit_length(exp) and to less than bit_length(exp) + w; the excess is the
\* zero padding of the topmost window.
C3_LengthsCoverBitLength ==
    (PartitionerReturned /\ Accepted) =>
        LET total == SumLengths(window_partitions, Len(window_partitions))
        IN  /\ bit_length(args.exp) <= total
            /\ total < bit_length(args.exp) + args.w

\* a partitioner has returned windows whose lengths sum to more than
\* bit_length(exp)
C3_Witness ==
    /\ PartitionerReturned /\ Accepted
    /\ Len(window_partitions) >= 2
    /\ SumLengths(window_partitions, Len(window_partitions)) > bit_length(args.exp)

\* ---- C4 ----

\* C4: every returned window has 0 <= value < 2 ** length, and folding the
\* list from its last window to its first with acc := (acc << length) | value
\* from acc = 0 yields exp.
C4_WindowsReconstructExponent ==
    (PartitionerReturned /\ Accepted) =>
        /\ \A k \in 1..Len(window_partitions) :
               /\ 0 <= window_partitions[k].value
               /\ window_partitions[k].value < 2 ^ window_partitions[k].length
        /\ FoldFrom(window_partitions, Len(window_partitions), 0) = args.exp

\* a partitioner has returned at least three windows, one of them zero and
\* one of them above 1
C4_Witness ==
    /\ PartitionerReturned /\ Accepted
    /\ Len(window_partitions) >= 3
    /\ \E k \in 1..Len(window_partitions) : window_partitions[k].value = 0
    /\ \E k \in 1..Len(window_partitions) : window_partitions[k].value > 1

\* ---- C5 ----

\* C5 as stated: in the list partition_window_clnw returns, no two
\* consecutive windows are both zero and no two are both nonzero.
C5_WindowsAlternate ==
    (PartitionerReturned /\ Accepted /\ op = "pow_window_clnw") =>
        \A k \in 1..(Len(window_partitions) - 1) :
            (window_partitions[k].value = 0) # (window_partitions[k + 1].value = 0)

\* C5 amended: in the list partition_window_clnw returns, no two consecutive
\* windows are both zero-windows (two consecutive nonzero-windows occur when
\* the bit after a nonzero window is 1).
C5_NoAdjacentZeroWindows ==
    (PartitionerReturned /\ Accepted /\ op = "pow_window_clnw") =>
        \A k \in 1..(Len(window_partitions) - 1) :
            ~(window_partitions[k].value = 0 /\ window_partitions[k + 1].value = 0)

\* partition_window_clnw has returned a list with a zero-window and with two
\* consecutive nonzero-windows
C5_Witness ==
    /\ PartitionerReturned /\ Accepted /\ op = "pow_window_clnw"
    /\ \E k \in 1..Len(window_partitions) : window_partitions[k].value = 0
    /\ \E k \in 1..(Len(window_partitions) - 1) :
           window_partitions[k].value # 0 /\ window_partitions[k + 1].value # 0

\* ---- C6 ----

\* C6: with exp = 0 every algorithm returns 1 % mod, for every x >= 0,
\* mod >= 1 and size parameter w >= 1.
C6_ExponentZeroYieldsOne ==
    (/\ args.exp = 0
     /\ op \in WindowOps => args.w >= 1
     /\ pc \in {"done", "raised"}) =>
        (pc = "done" /\ y = 1 % args.mod)

\* ---- C7 ----

\* C7: a partitioner given a size parameter it must not accept raises and
\* returns no list: whenever a partitioner has returned, 1 <= w, and
\* w < bit_length(exp) (same width) or w <= bit_length(exp) (CLNW).
C7_IncompatibleSizeFails ==
    PartitionerReturned => Accepted

\* ---- C8 ----

\* C8: in the replay of pow_window 0 <= y < mod, and whenever the windows
\* above index i are fully processed, y = x ** (exp >> (sum of the lengths of
\* the windows 0..i)) % mod.
C8_ReplayInvariant ==
    (op \in WindowOps /\ Accepted /\ pc \in {"replay", "done"}) =>
        /\ 0 <= y /\ y < args.mod
        /\ j = 0 =>
             y = PowerMod(args.x,
                          ShiftRight(args.exp, SumLengths(window_partitions, i + 1)),
                          args.mod)

\* the replay stands between two windows, having processed a nonzero window
\* after the topmost one, with more windows to come
C8_Witness ==
    /\ op \in WindowOps /\ Accepted /\ pc = "replay"
    /\ j = 0 /\ 0 <= i /\ i < Len(window_partitions) - 2
    /\ window_partitions[i + 2].value # 0
    /\ y > 1

\* ---- C9 ----

\* C9 as stated: every nonzero window of partition_window_clnw has its
\* most-significant bit set, 2 ** (length - 1) <= value < 2 ** length.
C9_NonzeroWindowTopBitSet ==
    (PartitionerReturned /\ Accepted /\ op = "pow_window_clnw") =>
        \A k \in 1..Len(window_partitions) :
            window_partitions[k].value # 0 =>
                /\ 2 ^ (window_partitions[k].length - 1) <= window_partitions[k].value
                /\ window_partitions[k].value < 2 ^ window_partitions[k].length

\* C9 amended: every nonzero window of partition_window_clnw has its
\* least-significant bit set (the scan runs from bit 0 upwards, so the 1-bit
\* that starts the window is its lowest bit): value is odd and
\* 1 <= value < 2 ** length.
C9_NonzeroWindowLowBitSet ==
    (PartitionerReturned /\ Accepted /\ op = "pow_window_clnw") =>
        \A k \in 1..Len(window_partitions) :
            window_partitions[k].value # 0 =>
                /\ window_partitions[k].value % 2 = 1
                /\ window_partitions[k].value < 2 ^ window_partitions[k].length

\* partition_window_clnw has returned a nonzero window whose top bit is 0
C9_Witness ==
    /\ PartitionerReturned /\ Accepted /\ op = "pow_window_clnw"
    /\ \E k \in 1..Len(window_partitions) :
           /\ window_partitions[k].value # 0
           /\ window_partitions[k].value < 2 ^ (window_partitions[k].length - 1)

\* ---- C10 ----

\* C10: pow_binary has made exactly bit_length(exp) iterations when it
\* returns, and every iteration of the outer loop of partition_window_clnw
\* moves position strictly upwards, for every integer size parameter.
C10_LoopsProgress ==
    /\ []((op = "pow_binary" /\ pc = "done") => iterations = bit_length(args.exp))
    /\ [][(op = "pow_window_clnw" /\ pc = "scan" /\ position < bit_length(exp))
             => position' > position]_vars

====
